---- MODULE Spec2Model ----
(***************************************************************************)
(* Monte Carlo tree search of minigo (mcts.py): the MCTSNode tree, its     *)
(* selection, expansion, evaluation incorporation and value backup.        *)
(*                                                                         *)
(* Numbers.  N and child_N are naturals.  Q, child_Q and the priors are    *)
(* exact rationals <<numerator, denominator>> in lowest terms.  An action  *)
(* score is a + b * sqrt(max(1, N)) with a and b rational, and two scores  *)
(* are compared exactly (SurdLess); floating point rounding is not         *)
(* modelled.                                                               *)
(*                                                                         *)
(* Vectors of length k are functions on 0 .. k-1, as numpy indexes them.   *)
(* The tree is the sequence of the nodes created so far; a node is named   *)
(* by its index in it, and the root is node 1.                             *)
(*                                                                         *)
(* call records the last call and what it returned; frame is the call in   *)
(* progress of the specification that runs select_leaf and backup_value    *)
(* one loop iteration at a time.                                           *)
(*                                                                         *)
(* Specifications.  Spec: the simulations of a search from the root.       *)
(* SpecPolicy: Spec with children_as_pi read between simulations.          *)
(* SpecCalls: any calls of select_leaf, add_child, incorporate_results and *)
(* backup_value on any node.  SpecOps: SpecCalls with inject_noise and     *)
(* children_as_pi.  SpecSteps: the simulations with select_leaf and        *)
(* backup_value run step by step, under weak fairness of the steps.        *)
(***************************************************************************)
EXTENDS Integers, Sequences, FiniteSets, TLC

VARIABLES tree, pending, ret, call, backed, halted, ncalls, frame

vars == <<tree, pending, ret, call, backed, halted, ncalls, frame>>

----------------------------------------------------------------------------
(* Bounds of the model *)

\* go.N * go.N: the number of points of the board
BoardArea == 2

\* simulations the driver runs
MaxSims == 3

\* calls of the free-call specification
MaxCalls == 3

----------------------------------------------------------------------------
(* Exact rational arithmetic.  Inside ENABLED, which the fairness of       *)
(* SpecSteps needs, TLC evaluates an argument of an operator anew at each  *)
(* of its uses, so the operators whose arguments are long expressions take *)
(* them as the one element of a set, which is evaluated once.              *)

Abs(x) == IF x < 0 THEN -x ELSE x

RECURSIVE GCD(_, _)
GCD(a, b) == IF b = 0 THEN a ELSE GCD(b, a % b)

Rat(n, d) ==
    LET Lowest(q) ==
            LET s == IF q[2] < 0 THEN -1 ELSE 1
                g == GCD(Abs(q[1]), Abs(q[2]))
            IN  <<(s * q[1]) \div g, (s * q[2]) \div g>>
    IN  CHOOSE r \in {Lowest(q) : q \in {<<n, d>>}} : TRUE

RInt(i) == <<i, 1>>

RAdd(x, y) == Rat(x[1] * y[2] + y[1] * x[2], x[2] * y[2])

RSub(x, y) == Rat(x[1] * y[2] - y[1] * x[2], x[2] * y[2])

RMul(x, y) == Rat(x[1] * y[1], x[2] * y[2])

RDiv(x, y) == Rat(x[1] * y[2], x[2] * y[1])

RSign(x) == IF x[1] > 0 THEN 1 ELSE IF x[1] < 0 THEN -1 ELSE 0

\* a/b < c/d for naturals a, c and positive b, d, by continued fractions
RECURSIVE FracLess(_, _, _, _)
FracLess(a, b, c, d) ==
    \E p \in {<<a, b, c, d>>} :
        IF p[1] \div p[2] # p[3] \div p[4] THEN p[1] \div p[2] < p[3] \div p[4]
        ELSE IF p[3] % p[4] = 0 THEN FALSE
        ELSE IF p[1] % p[2] = 0 THEN TRUE
        ELSE FracLess(p[4], p[3] % p[4], p[2], p[1] % p[2])

\* x < sqrt(n) for a positive rational x and a positive integer n
LessThanSqrt(x, n) == FracLess(x[1], x[2], n * x[2], x[1])

\* sqrt(n) < x for a positive rational x and a positive integer n
SqrtLessThan(x, n) == FracLess(n * x[2], x[1], x[1], x[2])

\* x < y * sqrt(n) for rationals x, y and a positive integer n
LessThanSurd(x, y, n) ==
    \E p \in {<<x, y>>} :
        CASE RSign(p[2]) = 0 -> RSign(p[1]) < 0
          [] RSign(p[2]) > 0 ->
                 RSign(p[1]) <= 0 \/ LessThanSqrt(RDiv(p[1], p[2]), n)
          [] OTHER ->
                 RSign(p[1]) < 0 /\ SqrtLessThan(RDiv(p[1], p[2]), n)

\* a score a + b * sqrt(n); s1 < s2
SurdLess(s1, s2, n) == LessThanSurd(RSub(s1.a, s2.a), RSub(s2.b, s1.b), n)

----------------------------------------------------------------------------
(* The rules engine (go.Position) and the coordinates                      *)

Moves == 0 .. BoardArea

pass_move == BoardArea

BLACK == 1

WHITE == -1

\* a position is the sequence of the moves played so far (position.recent)
to_play(pos) == IF Len(pos) % 2 = 0 THEN BLACK ELSE WHITE

is_game_over(pos) ==
    /\ Len(pos) >= 2
    /\ pos[Len(pos)] = pass_move
    /\ pos[Len(pos) - 1] = pass_move

IsLegal(pos, m) == m = pass_move \/ \A i \in 1 .. Len(pos) : pos[i] # m

all_legal_moves(pos) == [m \in Moves |-> IF IsLegal(pos, m) THEN 1 ELSE 0]

Stones(pos, colour) ==
    Cardinality({i \in 1 .. Len(pos) :
                    pos[i] # pass_move /\ to_play(SubSeq(pos, 1, i - 1)) = colour})

\* area score with a komi of half a point, doubled
score(pos) == 2 * (Stones(pos, BLACK) - Stones(pos, WHITE)) - 1

play_move(pos, m) == Append(pos, m)

RootPositions == {<<>>, <<pass_move>>, <<0, pass_move>>}

----------------------------------------------------------------------------
(* MCTSNode *)

None == -1

Root == 1

c_PUCT == Rat(138, 100)

\* the penalty of an illegal move in incorporate_results
IllegalPenalty == 10

ZeroVector == [m \in Moves |-> RInt(0)]

\* a node that is born with a visit
MCTSNode_Visited(position, fmove, parent) ==
    [parent         |-> parent,
     fmove          |-> fmove,
     position       |-> position,
     N              |-> 1,
     Q              |-> RInt(0),
     child_N        |-> [m \in Moves |-> 0],
     child_Q        |-> ZeroVector,
     original_prior |-> ZeroVector,
     child_prior    |-> ZeroVector,
     children       |-> [m \in Moves |-> None]]

MCTSNode(position, fmove, parent) ==
    [parent         |-> parent,
     fmove          |-> fmove,
     position       |-> position,
     N              |-> 0,
     Q              |-> RInt(0),
     child_N        |-> [m \in Moves |-> 0],
     child_Q        |-> ZeroVector,
     original_prior |-> ZeroVector,
     child_prior    |-> ZeroVector,
     children       |-> [m \in Moves |-> None]]

Nodes(t) == 1 .. Len(t)

\* max(1, self.N), the number under the square root of child_U
SqrtArg(node) == IF node.N > 1 THEN node.N ELSE 1

\* child_U without its factor sqrt(max(1, N))
child_U(node) ==
    [m \in Moves |->
        RDiv(RMul(c_PUCT, node.child_prior[m]), RInt(1 + node.child_N[m]))]

\* a score is a + b * sqrt(max(1, N))
child_action_score(node) ==
    [m \in Moves |->
        [a |-> node.child_Q[m],
         b |-> RMul(RInt(to_play(node.position)), child_U(node)[m])]]

\* np.argmax, np.argmin: the first index of an extremal entry
argmax(scores, n) ==
    LET First(sc) ==
            CHOOSE m \in Moves :
                /\ \A k \in Moves : ~ SurdLess(sc[m], sc[k], n)
                /\ \A k \in Moves : k < m => SurdLess(sc[k], sc[m], n)
    IN  CHOOSE r \in {First(sc) : sc \in {scores}} : TRUE

\* an argmin that returns the last index of a minimal entry
argmin_LastIndex(scores, n) ==
    LET Last(sc) ==
            CHOOSE m \in Moves :
                /\ \A k \in Moves : ~ SurdLess(sc[k], sc[m], n)
                /\ \A k \in Moves : k > m => SurdLess(sc[m], sc[k], n)
    IN  CHOOSE r \in {Last(sc) : sc \in {scores}} : TRUE

argmin(scores, n) ==
    LET First(sc) ==
            CHOOSE m \in Moves :
                /\ \A k \in Moves : ~ SurdLess(sc[k], sc[m], n)
                /\ \A k \in Moves : k < m => SurdLess(sc[m], sc[k], n)
    IN  CHOOSE r \in {First(sc) : sc \in {scores}} : TRUE

best_move(node) ==
    IF to_play(node.position) = BLACK
    THEN argmax(child_action_score(node), SqrtArg(node))
    ELSE argmin(child_action_score(node), SqrtArg(node))

\* a node and its ancestors, by the parent references
RECURSIVE AncestorsOf(_, _)
AncestorsOf(t, n) ==
    IF t[n].parent = None THEN {n} ELSE {n} \cup AncestorsOf(t, t[n].parent)

\* the result of a call: the tree after it, the node returned, whether it raised
Result(t, r, raised) == [tree |-> t, ret |-> r, raised |-> raised]

\* a membership test that never finds the child
HasChild_Never(node, fcoord) == FALSE

\* line 92: fcoord in self.children
HasChild(node, fcoord) == node.children[fcoord] # None

\* an add_child that counts a visit of the child it creates
add_child_CountsVisit(t, self, fcoord) ==
    IF ~ HasChild(t[self], fcoord)
    THEN IF ~ IsLegal(t[self].position, fcoord)
         THEN Result(t, None, TRUE)
         ELSE LET new == MCTSNode(play_move(t[self].position, fcoord), fcoord, self)
                  id  == Len(t) + 1
              IN  Result(Append([t EXCEPT ![self].children[fcoord] = id,
                                          ![self].child_N[fcoord] = 1], new),
                         id, FALSE)
    ELSE Result(t, t[self].children[fcoord], FALSE)

add_child(t, self, fcoord) ==
    IF ~ HasChild(t[self], fcoord)
    THEN IF ~ IsLegal(t[self].position, fcoord)
         THEN Result(t, None, TRUE)
         ELSE LET new == MCTSNode(play_move(t[self].position, fcoord), fcoord, self)
                  id  == Len(t) + 1
              IN  Result(Append([t EXCEPT ![self].children[fcoord] = id], new),
                         id, FALSE)
    ELSE Result(t, t[self].children[fcoord], FALSE)

PassJustPlayed(pos) == Len(pos) > 0 /\ pos[Len(pos)] = pass_move

\* select_leaf without its test of N
NeverVisited_Skipped(node) == FALSE

\* line 71: a node that was never evaluated
NeverVisited(node) == node.N = 0

\* select_leaf without its test of the end of the game
GameOver_Ignored(node) == FALSE

\* line 73
GameOver(node) == is_game_over(node.position)

\* select_leaf without its rule for the second pass
SecondPassUnopened_Never(node) == FALSE

\* line 78
SecondPassUnopened(node) ==
    PassJustPlayed(node.position) /\ node.child_N[pass_move] = 0

RECURSIVE SelectLoop(_, _)
SelectLoop(t, current) ==
    LET node == t[current] IN
    IF NeverVisited(node) THEN Result(t, current, FALSE)
    ELSE IF GameOver(node) THEN Result(t, current, FALSE)
    ELSE IF SecondPassUnopened(node) THEN add_child(t, current, pass_move)
    ELSE IF HasChild(node, best_move(node))
         THEN SelectLoop(t, node.children[best_move(node)])
    ELSE add_child(t, current, best_move(node))

select_leaf(t, self) == SelectLoop(t, self)

\* the mean taken over one value too many
updated_Q_OffByOne(Q, value, N) == RAdd(Q, RDiv(RSub(value, Q), RInt(N + 1)))

\* line 131
updated_Q(Q, value, N) == RAdd(Q, RDiv(RSub(value, Q), RInt(N)))

\* a backup that stops at the root only
StopsAt_RootOnly(t, self, up_to) == t[self].parent = None

\* line 133
StopsAt(t, self, up_to) == t[self].parent = None \/ self = up_to

\* a write-back of the value only
WriteBack_ForgetsCount(t, self, N, Q) ==
    [t EXCEPT ![t[self].parent].child_Q[t[self].fmove] = Q]

\* a write-back of the count before its increment
WriteBack_StaleCount(t, self, N, Q) ==
    [t EXCEPT ![t[self].parent].child_N[t[self].fmove] = N - 1,
              ![t[self].parent].child_Q[t[self].fmove] = Q]

\* lines 135-136
WriteBack(t, self, N, Q) ==
    [t EXCEPT ![t[self].parent].child_N[t[self].fmove] = N,
              ![t[self].parent].child_Q[t[self].fmove] = Q]

\* the value negated at each ply
RelayedValue_Flipped(value) == RSub(RInt(0), value)

\* line 137: the value handed to the parent
RelayedValue(value) == value

RECURSIVE backup_value(_, _, _, _)
backup_value(t, self, value, up_to) ==
    LET N  == t[self].N + 1
        Q  == updated_Q(t[self].Q, value, N)
        t1 == [t EXCEPT ![self].N = N, ![self].Q = Q]
    IN  IF StopsAt(t, self, up_to) THEN t1
        ELSE backup_value(WriteBack(t1, self, N, Q), t[self].parent,
                          RelayedValue(value), up_to)

\* the nodes a backup started at self updates, in order
RECURSIVE BackupPath(_, _, _)
BackupPath(t, self, up_to) ==
    IF StopsAt(t, self, up_to) THEN <<self>>
    ELSE <<self>> \o BackupPath(t, t[self].parent, up_to)

\* incorporate_results without its assertion
ShapeOK_Unchecked(move_probabilities) == TRUE

\* line 98
ShapeOK(move_probabilities) == DOMAIN move_probabilities = Moves

\* numpy broadcasts a vector of length 1 against one of any length
Broadcastable(move_probabilities) ==
    DOMAIN move_probabilities = Moves \/ DOMAIN move_probabilities = {0}

Broadcast(move_probabilities, m) ==
    IF DOMAIN move_probabilities = Moves
    THEN move_probabilities[m] ELSE move_probabilities[0]

\* the estimate of the caller kept at the end of the game
TrueValue_KeepsEstimate(pos, value) == value

\* lines 100-101: the value that incorporate_results backs up
TrueValue(pos, value) ==
    IF is_game_over(pos)
    THEN IF score(pos) > 0 THEN RInt(1) ELSE RInt(-1)
    ELSE value

\* the prior without the penalty of the illegal moves
ShapedPrior_NoPenalty(pos, move_probabilities) ==
    [m \in Moves |-> Broadcast(move_probabilities, m)]

\* lines 104-105
ShapedPrior(pos, move_probabilities) ==
    [m \in Moves |->
        RSub(Broadcast(move_probabilities, m),
             RInt((1 - all_legal_moves(pos)[m]) * IllegalPenalty))]

incorporate_results(t, self, move_probabilities, value, up_to) ==
    IF ~ ShapeOK(move_probabilities) THEN Result(t, None, TRUE)
    ELSE LET v  == TrueValue(t[self].position, value)
             t0 == [t EXCEPT ![self].original_prior = move_probabilities]
             t1 == [t0 EXCEPT
                      ![self].child_prior =
                          ShapedPrior(t[self].position, move_probabilities),
                      ![self].child_Q = [m \in Moves |-> v]]
         IN  IF ~ Broadcastable(move_probabilities) THEN Result(t0, None, TRUE)
             ELSE Result(backup_value(t1, self, v, up_to), None, FALSE)

\* a sum that leaves the pass entry out
np_sum_SkipsPass(v) ==
    LET RECURSIVE Upto(_)
        Upto(k) == IF k < 0 THEN 0 ELSE v[k] + Upto(k - 1)
    IN  Upto(BoardArea - 1)

\* np.sum of a vector of counts
np_sum(v) ==
    LET RECURSIVE Upto(_)
        Upto(k) == IF k < 0 THEN 0 ELSE v[k] + Upto(k - 1)
    IN  Upto(BoardArea)

\* the quotient 0 / 0 of numpy, which raises nothing
NaN == <<0, 0>>

\* np.ndarray division of counts by a count
np_divide(x, total) == IF total = 0 THEN NaN ELSE Rat(x, total)

children_as_pi(node, stretch) ==
    LET probs == IF stretch THEN [m \in Moves |-> node.child_N[m] ^ 8]
                 ELSE node.child_N
    IN  [m \in Moves |-> np_divide(probs[m], np_sum(probs))]

\* while node.children: the dictionary of the children is not empty
HasChildren(node) == \E m \in Moves : node.children[m] # None

\* the index of the least visit count in place of the greatest
next_kid_LeastVisited(node) ==
    CHOOSE m \in Moves :
        /\ \A k \in Moves : node.child_N[m] <= node.child_N[k]
        /\ \A k \in Moves : k < m => node.child_N[m] < node.child_N[k]

\* np.argmax(node.child_N): the first index of the greatest visit count
next_kid(node) ==
    CHOOSE m \in Moves :
        /\ \A k \in Moves : node.child_N[k] <= node.child_N[m]
        /\ \A k \in Moves : k < m => node.child_N[k] < node.child_N[m]

\* the moves and visit counts most_visited_path prints; a look-up of a
\* child that does not exist raises KeyError
RECURSIVE most_visited_path(_, _)
most_visited_path(t, self) ==
    IF ~ HasChildren(t[self]) THEN [output |-> <<>>, raised |-> FALSE]
    ELSE IF t[self].children[next_kid(t[self])] = None
         THEN [output |-> <<>>, raised |-> TRUE]
    ELSE LET kid  == t[self].children[next_kid(t[self])]
             rest == most_visited_path(t, kid)
         IN  [output |-> <<<<t[kid].fmove, t[kid].N>>>> \o rest.output,
              raised |-> rest.raised]

\* the moves mvp_gg prints: it goes on while a child was visited twice
RECURSIVE mvp_gg(_, _)
mvp_gg(t, self) ==
    IF ~ (HasChildren(t[self]) /\ t[self].child_N[next_kid(t[self])] > 1)
    THEN [output |-> <<>>, raised |-> FALSE]
    ELSE IF t[self].children[next_kid(t[self])] = None
         THEN [output |-> <<>>, raised |-> TRUE]
    ELSE LET kid  == t[self].children[next_kid(t[self])]
             rest == mvp_gg(t, kid)
         IN  [output |-> <<t[kid].fmove>> \o rest.output,
              raised |-> rest.raised]

\* noise that is added to a prior left at full weight
inject_noise_Unweighted(node, dirch) ==
    [node EXCEPT !.child_prior =
        [m \in Moves |-> RAdd(node.child_prior[m], RMul(dirch[m], Rat(25, 100)))]]

\* dirch is the sample np.random.dirichlet returned
inject_noise(node, dirch) ==
    [node EXCEPT !.child_prior =
        [m \in Moves |-> RAdd(RMul(node.child_prior[m], Rat(75, 100)),
                              RMul(dirch[m], Rat(25, 100)))]]

----------------------------------------------------------------------------
(* The inputs of the calls *)

\* values the evaluator returns
Values == {RInt(-1), RInt(0), RInt(1)}

OneHot(i) == [m \in Moves |-> IF m = i THEN RInt(1) ELSE RInt(0)]

Uniform == [m \in Moves |-> Rat(1, BoardArea + 1)]

\* probability vectors the evaluator returns
ProbVectors == {OneHot(i) : i \in Moves} \cup {Uniform}

\* the inputs of the free calls
CallValues == {RInt(-1), RInt(1)}

CallProbVectors == {Uniform, OneHot(0)}

\* vectors of another length than go.N * go.N + 1
\* samples of the Dirichlet distribution: not negative, summing to 1
DirichletSamples == {Uniform, OneHot(0)}

WrongShapeVectors ==
    {[i \in 0 .. k - 1 |-> IF i = 0 THEN RInt(1) ELSE RInt(0)] :
        k \in {1, BoardArea, BoardArea + 2}}

NoCall ==
    [op |-> "none", self |-> None, fcoord |-> None, move_probabilities |-> <<>>,
     value |-> RInt(0), up_to |-> None, raised |-> FALSE,
     stretch |-> FALSE, dirch |-> <<>>, pi |-> <<>>]

\* no call in progress
NoFrame == [op |-> "idle", current |-> None, value |-> RInt(0), up_to |-> None,
            before |-> <<>>]

----------------------------------------------------------------------------
(* The state machine *)

Init ==
    /\ tree \in {<<MCTSNode(pos, None, None)>> : pos \in RootPositions}
    /\ pending = None
    /\ ret = None
    /\ call = NoCall
    /\ backed = <<>>
    /\ halted = {}
    /\ ncalls = 0
    /\ frame = NoFrame

\* a call of select_leaf on a node
DoSelectLeaf(self) ==
    LET r == select_leaf(tree, self) IN
    /\ tree' = r.tree
    /\ ret' = r.ret
    /\ call' = [NoCall EXCEPT !.op = "select_leaf", !.self = self,
                              !.raised = r.raised]
    /\ UNCHANGED <<backed, halted, frame>>

\* a call of add_child on a node
DoAddChild(self, fcoord) ==
    LET r == add_child(tree, self, fcoord) IN
    /\ tree' = r.tree
    /\ ret' = r.ret
    /\ call' = [NoCall EXCEPT !.op = "add_child", !.self = self,
                              !.fcoord = fcoord, !.raised = r.raised]
    /\ UNCHANGED <<backed, halted, frame>>

\* what a backup of value started at self adds to the histories
NoteBackup(self, value, up_to) ==
    LET path == BackupPath(tree, self, up_to)
        top  == path[Len(path)]
    IN  /\ backed' = IF top = Root THEN Append(backed, value) ELSE backed
        /\ halted' = IF tree[top].parent # None THEN halted \cup {top} ELSE halted

\* a call of incorporate_results on a node
DoIncorporateResults(self, move_probabilities, value, up_to) ==
    LET r == incorporate_results(tree, self, move_probabilities, value, up_to) IN
    /\ tree' = r.tree
    /\ ret' = None
    /\ call' = [NoCall EXCEPT !.op = "incorporate_results", !.self = self,
                              !.move_probabilities = move_probabilities,
                              !.value = value, !.up_to = up_to,
                              !.raised = r.raised]
    /\ IF r.raised THEN UNCHANGED <<backed, halted>>
       ELSE NoteBackup(self, TrueValue(tree[self].position, value), up_to)
    /\ UNCHANGED frame

\* a call of backup_value on a node
DoBackupValue(self, value, up_to) ==
    /\ tree' = backup_value(tree, self, value, up_to)
    /\ ret' = None
    /\ call' = [NoCall EXCEPT !.op = "backup_value", !.self = self,
                              !.value = value, !.up_to = up_to]
    /\ NoteBackup(self, value, up_to)
    /\ UNCHANGED frame

\* a call of inject_noise on a node, with the sample it drew
DoInjectNoise(self, dirch) ==
    /\ tree' = [tree EXCEPT ![self] = inject_noise(tree[self], dirch)]
    /\ call' = [NoCall EXCEPT !.op = "inject_noise", !.self = self,
                              !.dirch = dirch]
    /\ ret' = None
    /\ UNCHANGED <<backed, halted, frame>>

\* a call of children_as_pi on a node
DoChildrenAsPi(self, stretch) ==
    /\ call' = [NoCall EXCEPT !.op = "children_as_pi", !.self = self,
                              !.stretch = stretch,
                              !.pi = children_as_pi(tree[self], stretch)]
    /\ ret' = None
    /\ UNCHANGED <<tree, backed, halted, frame>>

\* an exception is caught nowhere: it ends the run
Running == ~ call.raised

(* The driver of a search: simulations from the root, one leaf at a time *)

SelectLeaf ==
    /\ Running
    /\ pending = None
    /\ Len(backed) < MaxSims
    /\ DoSelectLeaf(Root)
    /\ pending' = ret'
    /\ UNCHANGED ncalls

IncorporateResults ==
    /\ Running
    /\ pending # None
    /\ \E move_probabilities \in ProbVectors \cup WrongShapeVectors,
          value \in Values :
          DoIncorporateResults(pending, move_probabilities, value, None)
    /\ pending' = IF call'.raised THEN pending ELSE None
    /\ UNCHANGED ncalls

Next == SelectLeaf \/ IncorporateResults

Spec == Init /\ [][Next]_vars

\* the policy read off a node between two simulations, once
ChildrenAsPi ==
    /\ Running
    /\ pending = None
    /\ call.op # "children_as_pi"
    /\ \E self \in Nodes(tree), stretch \in BOOLEAN : DoChildrenAsPi(self, stretch)
    /\ UNCHANGED <<pending, ncalls>>

\* the simulations, and the policy read between them
NextPolicy == Next \/ ChildrenAsPi

SpecPolicy == Init /\ [][NextPolicy]_vars

(* Free calls: any operation on any node, with any stop node *)

\* a stop node off the path to the root stops nothing: None stands for it
StopNodes(self) == AncestorsOf(tree, self) \cup {None}

CallSelectLeaf ==
    /\ Running
    /\ ncalls < MaxCalls
    /\ \E self \in Nodes(tree) : DoSelectLeaf(self)
    /\ ncalls' = ncalls + 1
    /\ UNCHANGED pending

CallAddChild ==
    /\ Running
    /\ ncalls < MaxCalls
    /\ \E self \in Nodes(tree), fcoord \in Moves : DoAddChild(self, fcoord)
    /\ ncalls' = ncalls + 1
    /\ UNCHANGED pending

CallIncorporateResults ==
    /\ Running
    /\ ncalls < MaxCalls
    /\ \E self \in Nodes(tree), move_probabilities \in CallProbVectors,
          value \in CallValues :
          \E up_to \in StopNodes(self) :
              DoIncorporateResults(self, move_probabilities, value, up_to)
    /\ ncalls' = ncalls + 1
    /\ UNCHANGED pending

CallBackupValue ==
    /\ Running
    /\ ncalls < MaxCalls
    /\ \E self \in Nodes(tree), value \in CallValues :
          \E up_to \in StopNodes(self) : DoBackupValue(self, value, up_to)
    /\ ncalls' = ncalls + 1
    /\ UNCHANGED pending

NextCalls ==
    CallSelectLeaf \/ CallAddChild \/ CallIncorporateResults \/ CallBackupValue

SpecCalls == Init /\ [][NextCalls]_vars

CallInjectNoise ==
    /\ Running
    /\ ncalls < MaxCalls
    /\ \E self \in Nodes(tree), dirch \in DirichletSamples :
           DoInjectNoise(self, dirch)
    /\ ncalls' = ncalls + 1
    /\ UNCHANGED pending

CallChildrenAsPi ==
    /\ Running
    /\ ncalls < MaxCalls
    /\ \E self \in Nodes(tree), stretch \in BOOLEAN :
           DoChildrenAsPi(self, stretch)
    /\ ncalls' = ncalls + 1
    /\ UNCHANGED pending

\* the calls of SpecCalls with the two methods that use the statistics
NextOps == NextCalls \/ CallInjectNoise \/ CallChildrenAsPi

SpecOps == Init /\ [][NextOps]_vars

----------------------------------------------------------------------------
(* The same simulations with select_leaf and backup_value run one loop     *)
(* iteration, one recursive call, at a time                                *)

\* a descent that forgets to move on
Descend_Stays(t, current, m) == current

\* line 85: current = current.children[best_move]
Descend(t, current, m) == t[current].children[m]

\* lines 69-88, one iteration of the loop at current: the call returns
\* result, or the loop goes on at the node next
SelectIteration(t, current) ==
    LET node == t[current]
        Return(r) == [returned |-> TRUE, result |-> r, next |-> None]
    IN  IF NeverVisited(node) THEN Return(Result(t, current, FALSE))
        ELSE IF GameOver(node) THEN Return(Result(t, current, FALSE))
        ELSE IF SecondPassUnopened(node)
             THEN Return(add_child(t, current, pass_move))
        ELSE IF HasChild(node, best_move(node))
             THEN [returned |-> FALSE, result |-> Result(t, None, FALSE),
                   next |-> Descend(t, current, best_move(node))]
        ELSE Return(add_child(t, current, best_move(node)))

\* lines 102-116: incorporate_results before the backup it ends with
SetPriors(t, self, move_probabilities, v) ==
    [t EXCEPT ![self].original_prior = move_probabilities,
              ![self].child_prior =
                  ShapedPrior(t[self].position, move_probabilities),
              ![self].child_Q = [m \in Moves |-> v]]

BeginSelectLeaf ==
    /\ Running
    /\ frame.op = "idle"
    /\ pending = None
    /\ Len(backed) < MaxSims
    /\ frame' = [NoFrame EXCEPT !.op = "select_leaf", !.current = Root,
                                !.before = tree]
    /\ call' = [NoCall EXCEPT !.op = "select_leaf", !.self = Root]
    /\ ret' = None
    /\ UNCHANGED <<tree, pending, backed, halted, ncalls>>

StepSelectLeaf ==
    /\ Running
    /\ frame.op = "select_leaf"
    /\ \E it \in {SelectIteration(tree, frame.current)} :
       IF it.returned
       THEN /\ tree' = it.result.tree
            /\ ret' = it.result.ret
            /\ pending' = it.result.ret
            /\ call' = [call EXCEPT !.raised = it.result.raised]
            /\ frame' = [frame EXCEPT !.op = "idle", !.current = None]
       ELSE /\ frame' = [frame EXCEPT !.current = it.next]
            /\ UNCHANGED <<tree, ret, pending, call>>
    /\ UNCHANGED <<backed, halted, ncalls>>

\* lines 98-117: incorporate_results on the leaf, up to the call of
\* backup_value
BeginIncorporateResults ==
    /\ Running
    /\ frame.op = "idle"
    /\ pending # None
    /\ \E move_probabilities \in CallProbVectors \cup WrongShapeVectors,
          value \in CallValues :
          LET v == TrueValue(tree[pending].position, value) IN
          /\ call' = [NoCall EXCEPT !.op = "incorporate_results",
                                    !.self = pending,
                                    !.move_probabilities = move_probabilities,
                                    !.value = value,
                                    !.raised = ~ ShapeOK(move_probabilities)]
          /\ IF ShapeOK(move_probabilities)
             THEN /\ tree' = SetPriors(tree, pending, move_probabilities, v)
                  /\ frame' = [op |-> "backup_value", current |-> pending,
                               value |-> v, up_to |-> None, before |-> tree]
             ELSE UNCHANGED <<tree, frame>>
    /\ ret' = None
    /\ UNCHANGED <<pending, backed, halted, ncalls>>

\* lines 127-137, one call of backup_value at frame.current
StepBackupValue ==
    /\ Running
    /\ frame.op = "backup_value"
    /\ LET self == frame.current
           N    == tree[self].N + 1
           Q    == updated_Q(tree[self].Q, frame.value, N)
           t1   == [tree EXCEPT ![self].N = N, ![self].Q = Q]
       IN  IF StopsAt(tree, self, frame.up_to)
           THEN /\ tree' = t1
                /\ frame' = [frame EXCEPT !.op = "idle", !.current = None]
                /\ pending' = None
                /\ backed' = IF self = Root THEN Append(backed, frame.value)
                             ELSE backed
           ELSE /\ tree' = WriteBack(t1, self, N, Q)
                /\ frame' = [frame EXCEPT !.current = tree[self].parent,
                                          !.value = RelayedValue(frame.value)]
                /\ UNCHANGED <<pending, backed>>
    /\ UNCHANGED <<ret, call, halted, ncalls>>

NextSteps ==
    \/ BeginSelectLeaf
    \/ StepSelectLeaf
    \/ BeginIncorporateResults
    \/ StepBackupValue

\* one thread runs the calls: a call that has begun takes its next step
SpecSteps ==
    /\ Init
    /\ [][NextSteps]_vars
    /\ WF_vars(StepSelectLeaf)
    /\ WF_vars(StepBackupValue)

----------------------------------------------------------------------------
(* Helpers of the properties *)

RECURSIVE SumN(_, _)
SumN(v, k) == IF k < 0 THEN 0 ELSE v[k] + SumN(v, k - 1)

RECURSIVE SeqSum(_)
SeqSum(s) == IF s = <<>> THEN RInt(0) ELSE RAdd(s[1], SeqSum(Tail(s)))

\* +1 or -1, the sign of the score of a finished game
Outcome(pos) == IF score(pos) > 0 THEN RInt(1) ELSE RInt(-1)

\* q1 is the running mean after adding v as the n1-th value to mean q0
IsIncrementalMean(q1, q0, v, n1) == RMul(RSub(q1, q0), RInt(n1)) = RSub(v, q0)

ChildCountMatches(P, m) ==
    IF tree[P].children[m] # None
    THEN tree[P].child_N[m] = tree[tree[P].children[m]].N
    ELSE tree[P].child_N[m] = 0

----------------------------------------------------------------------------
(* C1 *)

\* C1 as stated: in every state reachable by select_leaf, add_child,
\* incorporate_results and backup_value calls, with or without a stop node,
\* child_N[m] is the N of the child at m, and 0 where there is no child.
C1_AsStated == \A P \in Nodes(tree), m \in Moves : ChildCountMatches(P, m)

\* C1, amended: child_N[m] is the N of the child at m unless a backup has
\* ended at that child as its stop node, and 0 where there is no child.
C1_ChildCounts ==
    \A P \in Nodes(tree), m \in Moves :
        tree[P].children[m] \notin halted => ChildCountMatches(P, m)

\* a child that two backups have passed, none of them stopping at it
C1_Witness ==
    \E P \in Nodes(tree), m \in Moves :
        /\ tree[P].children[m] # None
        /\ tree[P].children[m] \notin halted
        /\ tree[P].child_N[m] = 2
        /\ \E k \in Moves : tree[P].children[k] = None

----------------------------------------------------------------------------
(* C2 *)

\* C2: at every visited node of an unfinished game, the index the comparison
\* of select_leaf picks (argmax of the action score for black, argmin for
\* white) is a legal move.
C2_IllegalNeverSelected ==
    \A n \in Nodes(tree) :
        (tree[n].N >= 1 /\ ~ is_game_over(tree[n].position)) =>
            all_legal_moves(tree[n].position)[best_move(tree[n])] = 1

\* a visited node where an illegal move has all the raw probability and a
\* legal move has none
C2_Witness ==
    \E n \in Nodes(tree), i \in Moves, l \in Moves :
        /\ tree[n].N >= 2
        /\ ~ is_game_over(tree[n].position)
        /\ all_legal_moves(tree[n].position)[i] = 0
        /\ tree[n].original_prior[i] = RInt(1)
        /\ all_legal_moves(tree[n].position)[l] = 1
        /\ tree[n].original_prior[l] = RInt(0)
        /\ tree[n].child_N[l] >= 1

----------------------------------------------------------------------------
(* C3 *)

\* C3: a select_leaf call that returns, returns a node with N = 0 or a
\* finished game; on a node with N = 0 it returns that node and creates nothing.
C3_SelectReturnsLeaf ==
    [][(call'.op = "select_leaf" /\ ~ call'.raised) =>
          /\ ret' \in Nodes(tree')
          /\ tree'[ret'].N = 0 \/ is_game_over(tree'[ret'].position)
          /\ tree[call'.self].N = 0 => (ret' = call'.self /\ tree' = tree)]_vars

\* select_leaf has returned a finished game that was visited before
C3_Witness ==
    /\ call.op = "select_leaf"
    /\ ret # None
    /\ is_game_over(tree[ret].position)
    /\ tree[ret].N >= 1

----------------------------------------------------------------------------
(* C4 *)

\* C4: backup_value(v) without a stop node adds 1 to N and moves Q to
\* Q + (v - Q)/N' at the start node and each of its ancestors, all with the
\* same v, and changes the N and Q of no other node.
C4_BackupToRoot ==
    [][(call'.op = "backup_value" /\ call'.up_to = None) =>
          \A n \in Nodes(tree) :
              IF n \in AncestorsOf(tree, call'.self)
              THEN /\ tree'[n].N = tree[n].N + 1
                   /\ IsIncrementalMean(tree'[n].Q, tree[n].Q, call'.value,
                                        tree[n].N + 1)
              ELSE tree'[n].N = tree[n].N /\ tree'[n].Q = tree[n].Q]_vars

\* a backup of a value other than 0 through two ancestors
C4_Witness ==
    /\ call.op = "backup_value"
    /\ call.up_to = None
    /\ call.value # RInt(0)
    /\ tree[call.self].parent # None
    /\ tree[tree[call.self].parent].parent # None

----------------------------------------------------------------------------
(* C5 *)

\* C5: after complete simulations, at every visited node of an unfinished
\* game the entries of child_N sum to N - 1.
C5_ChildVisitsSum ==
    pending = None =>
        \A n \in Nodes(tree) :
            (tree[n].N >= 1 /\ ~ is_game_over(tree[n].position)) =>
                SumN(tree[n].child_N, BoardArea) = tree[n].N - 1

\* a node visited three times, two of its children visited
C5_Witness ==
    /\ pending = None
    /\ \E n \in Nodes(tree), a \in Moves, b \in Moves :
          /\ a # b
          /\ tree[n].N = 3
          /\ tree[n].child_N[a] = 1
          /\ tree[n].child_N[b] = 1

----------------------------------------------------------------------------
(* C6 *)

\* C6: add_child on an index that has a child returns that child and changes
\* nothing; no two nodes are the child of one node at one index, and every
\* node but the root is the child its parent holds at its move.
C6_AddChildIdempotent ==
    [][/\ (call'.op = "add_child" /\ tree[call'.self].children[call'.fcoord] # None)
            => (ret' = tree[call'.self].children[call'.fcoord] /\ tree' = tree)
       /\ \A c \in Nodes(tree') :
            tree'[c].parent # None =>
                tree'[tree'[c].parent].children[tree'[c].fmove] = c]_vars

\* add_child has returned a child that existed before the call
C6_Witness ==
    /\ call.op = "add_child"
    /\ ~ call.raised
    /\ ret # Len(tree)

----------------------------------------------------------------------------
(* C7 *)

\* C7: after k complete simulations that backed up v1 .. vk, the root has
\* N = k and Q = (v1 + ... + vk) / k.
C7_RootMean ==
    pending = None =>
        /\ tree[Root].N = Len(backed)
        /\ Len(backed) > 0 =>
              RMul(tree[Root].Q, RInt(Len(backed))) = SeqSum(backed)

\* the scenario of the claim: value 0 at the root, then +1 from a new child
C7_Witness ==
    /\ pending = None
    /\ backed = <<RInt(0), RInt(1)>>
    /\ Len(tree) = 2
    /\ tree[Root].N = 2
    /\ tree[Root].Q = Rat(1, 2)

----------------------------------------------------------------------------
(* C8 *)

\* C8: incorporate_results on a finished game backs up the sign of the score
\* at the node and its ancestors and writes it to the node's child_Q,
\* whatever value the caller gave; a finished game that was visited has the
\* sign of its score as Q.
C8_TerminalValue ==
    [][(/\ call'.op = "incorporate_results"
        /\ ~ call'.raised
        /\ is_game_over(tree[call'.self].position)) =>
          /\ \A n \in AncestorsOf(tree, call'.self) :
                /\ tree'[n].N = tree[n].N + 1
                /\ IsIncrementalMean(tree'[n].Q, tree[n].Q,
                                     Outcome(tree[call'.self].position),
                                     tree[n].N + 1)
          /\ \A m \in Moves :
                tree'[call'.self].child_Q[m] = Outcome(tree[call'.self].position)
          /\ tree'[call'.self].Q = Outcome(tree[call'.self].position)]_vars

\* a finished game was incorporated with a value that is not its outcome
C8_Witness ==
    /\ call.op = "incorporate_results"
    /\ ~ call.raised
    /\ is_game_over(tree[call.self].position)
    /\ call.value # Outcome(tree[call.self].position)
    /\ call.value # RInt(0)
    /\ tree[call.self].N = 2

----------------------------------------------------------------------------
(* C9 *)

\* C9: a node of a finished game has no children.
C9_TerminalNotExpanded ==
    \A n \in Nodes(tree) :
        is_game_over(tree[n].position) =>
            \A m \in Moves : tree[n].children[m] = None

\* a finished game that was selected and backed up twice
C9_Witness ==
    \E n \in Nodes(tree) : is_game_over(tree[n].position) /\ tree[n].N >= 2

----------------------------------------------------------------------------
(* C10 *)

\* C10: incorporate_results with a vector of another length than
\* go.N * go.N + 1 raises and changes no node.
C10_WrongShapeFails ==
    [][(/\ call'.op = "incorporate_results"
        /\ DOMAIN call'.move_probabilities # 0 .. BoardArea) =>
          (call'.raised /\ tree' = tree)]_vars

\* a call with a vector that is too short has raised below the root
C10_Witness ==
    /\ call.op = "incorporate_results"
    /\ call.raised
    /\ DOMAIN call.move_probabilities = 0 .. BoardArea - 1
    /\ tree[call.self].parent # None
    /\ tree[tree[call.self].parent].N >= 1

----------------------------------------------------------------------------
(* C11 *)

RECURSIVE RatSum(_, _)
\* the sum of the entries 0 .. k of a vector of rationals
RatSum(v, k) == IF k < 0 THEN RInt(0) ELSE RAdd(v[k], RatSum(v, k - 1))

\* a vector of numbers that are not negative and sum to 1
IsDistribution(v) ==
    /\ \A m \in Moves : v[m] # NaN /\ v[m][2] > 0 /\ v[m][1] >= 0
    /\ RatSum(v, BoardArea) = RInt(1)

\* as stated: one backed-up simulation is enough for children_as_pi to
\* return a distribution
C11_AsStated ==
    (call.op = "children_as_pi" /\ tree[call.self].N >= 1) =>
        IsDistribution(call.pi)

\* C11: on a node of an unfinished game with N >= 2, children_as_pi returns
\* numbers that are not negative and sum to 1, and without stretch they are
\* the visit counts of the children divided by their sum N - 1.
C11_PolicyOfVisitedNode ==
    (/\ call.op = "children_as_pi"
     /\ tree[call.self].N >= 2
     /\ ~ is_game_over(tree[call.self].position)) =>
        /\ IsDistribution(call.pi)
        /\ ~ call.stretch =>
              \A m \in Moves :
                  RMul(call.pi[m], RInt(tree[call.self].N - 1))
                      = RInt(tree[call.self].child_N[m])

\* the policy of a root with two children that were visited once each
C11_Witness ==
    /\ call.op = "children_as_pi"
    /\ ~ call.stretch
    /\ call.self = Root
    /\ tree[Root].N = 3
    /\ \E m, k \in Moves : /\ m # k
                            /\ tree[Root].child_N[m] = 1
                            /\ tree[Root].child_N[k] = 1
                            /\ call.pi[m] = Rat(1, 2)

----------------------------------------------------------------------------
(* C12 *)

\* the child_prior of the node is what incorporate_results made of an
\* evaluator output that sums to 1
PriorFromEvaluator(node) ==
    /\ RatSum(node.original_prior, BoardArea) = RInt(1)
    /\ \A m \in Moves :
           node.child_prior[m] =
               IF IsLegal(node.position, m) THEN node.original_prior[m]
               ELSE RSub(node.original_prior[m], RInt(10))

\* as stated: the noise never changes the sum of child_prior
C12_AsStated ==
    [][(call'.op = "inject_noise" /\ PriorFromEvaluator(tree[call'.self])) =>
          RatSum(tree'[call'.self].child_prior, BoardArea)
              = RatSum(tree[call'.self].child_prior, BoardArea)]_vars

\* C12: inject_noise on a node whose child_prior incorporate_results set
\* from a vector summing to 1 makes the sum of child_prior three quarters
\* of the old sum plus one quarter; the sum stays what it was, 1, when
\* every move of the position is legal.
C12_NoiseKeepsSumWhenAllLegal ==
    [][(call'.op = "inject_noise" /\ PriorFromEvaluator(tree[call'.self])) =>
          LET before == RatSum(tree[call'.self].child_prior, BoardArea)
              after  == RatSum(tree'[call'.self].child_prior, BoardArea)
          IN  /\ RMul(after, RInt(4)) = RAdd(RMul(before, RInt(3)), RInt(1))
              /\ (\A m \in Moves : IsLegal(tree[call'.self].position, m)) =>
                     (after = before /\ after = RInt(1))]_vars

\* noise has changed the evaluated prior of a position without illegal moves
C12_Witness ==
    /\ call.op = "inject_noise"
    /\ \A m \in Moves : IsLegal(tree[call.self].position, m)
    /\ RatSum(tree[call.self].original_prior, BoardArea) = RInt(1)
    /\ tree[call.self].child_prior # tree[call.self].original_prior
    /\ \A m \in Moves :
           RMul(tree[call.self].child_prior[m], RInt(4)) =
               RAdd(RMul(tree[call.self].original_prior[m], RInt(3)),
                    call.dirch[m])

----------------------------------------------------------------------------
(* C13 *)

\* C13: no step of a simulation changes the original_prior of a node that
\* incorporate_results has evaluated before (N >= 1).
C13_OriginalPriorKept ==
    [][\A n \in Nodes(tree) :
          tree[n].N >= 1 => tree'[n].original_prior = tree[n].original_prior]_vars

----------------------------------------------------------------------------
(* C14 *)

\* C14: backup_value(v, up_to = S) started at a node below S or at S adds 1
\* to N and moves Q to Q + (v - Q)/N' at every node from the start node up
\* to S, S included, and leaves N, Q, child_N and child_Q of every proper
\* ancestor of S as they were, the entries of S in its parent included.
C14_BackupStopsAtUpTo ==
    [][(call'.op = "backup_value" /\ call'.up_to # None) =>
          \A n \in Nodes(tree) :
              /\ (n \in AncestorsOf(tree, call'.self)
                    /\ call'.up_to \in AncestorsOf(tree, n)) =>
                     /\ tree'[n].N = tree[n].N + 1
                     /\ IsIncrementalMean(tree'[n].Q, tree[n].Q, call'.value,
                                          tree[n].N + 1)
              /\ (n \in AncestorsOf(tree, call'.up_to) /\ n # call'.up_to) =>
                     /\ tree'[n].N = tree[n].N
                     /\ tree'[n].Q = tree[n].Q
                     /\ tree'[n].child_N = tree[n].child_N
                     /\ tree'[n].child_Q = tree[n].child_Q]_vars

\* a backup of a value other than 0 from a grandchild of the root that
\* stopped at its parent
C14_Witness ==
    /\ call.op = "backup_value"
    /\ call.value # RInt(0)
    /\ call.up_to # None
    /\ call.up_to = tree[call.self].parent
    /\ tree[call.up_to].parent = Root
    /\ tree[call.up_to].N = 1
    /\ tree[Root].N = 0

----------------------------------------------------------------------------
(* C15 *)

\* node n lies on the way select_leaf went from the node start to the node
\* it returned, the ends included
OnDescent(n, start, returned) ==
    /\ n \in AncestorsOf(tree', returned)
    /\ start \in AncestorsOf(tree, n)

\* an evaluated node of an unfinished game that a pass has led to and whose
\* pass child was never backed up
PassRuleApplies(node) ==
    /\ node.N >= 1
    /\ ~ is_game_over(node.position)
    /\ Len(node.position) > 0
    /\ node.position[Len(node.position)] = BoardArea
    /\ node.child_N[BoardArea] = 0

\* entry m of the scores of the node is strictly better for its player
\* than entry k
StrictlyBetter(node, m, k) ==
    IF to_play(node.position) = BLACK
    THEN SurdLess(child_action_score(node)[k], child_action_score(node)[m],
                  SqrtArg(node))
    ELSE SurdLess(child_action_score(node)[m], child_action_score(node)[k],
                  SqrtArg(node))

\* C15: when the descent of select_leaf comes to an evaluated node of an
\* unfinished game whose last move was a pass and whose child_N[pass] is 0,
\* select_leaf returns the pass child of that node, created if it was absent.
C15_SecondPassFirst ==
    [][(call'.op = "select_leaf" /\ ~ call'.raised) =>
          \A n \in Nodes(tree) :
              (OnDescent(n, call'.self, ret') /\ PassRuleApplies(tree[n])) =>
                  /\ ret' = tree'[n].children[BoardArea]
                  /\ tree'[ret'].parent = n
                  /\ tree'[ret'].fmove = BoardArea
                  /\ tree'[ret'].position = Append(tree[n].position, BoardArea)
                  /\ tree[n].children[BoardArea] = None => ret' = Len(tree) + 1
          ]_vars

\* select_leaf has returned a pass child it created below a node at which
\* another move had a strictly better score than the pass
C15_Witness ==
    /\ call.op = "select_leaf"
    /\ ret = Len(tree)
    /\ tree[ret].N = 0
    /\ tree[ret].fmove = BoardArea
    /\ tree[ret].parent # None
    /\ PassRuleApplies(tree[tree[ret].parent])
    /\ \E m \in Moves : StrictlyBetter(tree[tree[ret].parent], m, BoardArea)

----------------------------------------------------------------------------
(* C16 *)

\* no entry of the scores of the node is strictly better for its player
\* than entry m
IsExtremal(node, m) == \A k \in Moves : ~ StrictlyBetter(node, k, m)

\* C16: where the descent of select_leaf goes from a node to a child by the
\* scores (the pass rule does not apply), the child is at the lowest index
\* whose child_action_score is extremal for the player to move: the
\* greatest score for black, the least for white.
C16_TiesToLowestIndex ==
    [][(call'.op = "select_leaf" /\ ~ call'.raised) =>
          \A n \in Nodes(tree), c \in Nodes(tree') :
              (/\ c \in AncestorsOf(tree', ret')
               /\ tree'[c].parent = n
               /\ call'.self \in AncestorsOf(tree, n)
               /\ ~ PassRuleApplies(tree[n])) =>
                  /\ IsExtremal(tree[n], tree'[c].fmove)
                  /\ \A k \in Moves :
                         k < tree'[c].fmove => ~ IsExtremal(tree[n], k)]_vars

\* select_leaf has created a child below a node with white to move at which
\* two indices had the least score
C16_Witness ==
    /\ call.op = "select_leaf"
    /\ ret = Len(tree)
    /\ tree[ret].N = 0
    /\ tree[ret].parent # None
    /\ to_play(tree[tree[ret].parent].position) = WHITE
    /\ ~ PassRuleApplies(tree[tree[ret].parent])
    /\ \E k \in Moves : /\ k > tree[ret].fmove
                         /\ IsExtremal(tree[tree[ret].parent], k)

----------------------------------------------------------------------------
(* C17 *)

\* the step is a backup whose write-back goes to entry m of node P: a child
\* of P at m lies on the chain from the start node, below the stop node
WrittenBack(P, m) ==
    /\ call'.op \in {"backup_value", "incorporate_results"}
    /\ ~ call'.raised
    /\ \E c \in Nodes(tree) :
           /\ tree[c].parent = P
           /\ tree[c].fmove = m
           /\ c \in AncestorsOf(tree, call'.self)
           /\ c # call'.up_to
           /\ call'.up_to # None => call'.up_to \in AncestorsOf(tree, c)

\* the step is incorporate_results on node P, which sets every entry of
\* the child_Q of P to the value it backs up
InitialisedQ(P, m) ==
    /\ call'.op = "incorporate_results"
    /\ call'.self = P
    /\ tree'[P].child_Q[m] =
           IF is_game_over(tree[P].position) THEN Outcome(tree[P].position)
           ELSE call'.value

\* as stated: the write-back of a backup is all that changes an entry of
\* child_N or child_Q
C17_AsStated ==
    [][\A P \in Nodes(tree), m \in Moves :
          (\/ tree'[P].child_N[m] # tree[P].child_N[m]
           \/ tree'[P].child_Q[m] # tree[P].child_Q[m]) => WrittenBack(P, m)]_vars

\* C17: an entry of child_N changes only in the write-back of a backup; an
\* entry of child_Q changes only in the write-back of a backup or when
\* incorporate_results sets the child_Q of its own node to the value.
\* select_leaf, add_child, inject_noise and children_as_pi change neither.
C17_OnlyBackupAndInitialisation ==
    [][\A P \in Nodes(tree), m \in Moves :
          /\ tree'[P].child_N[m] # tree[P].child_N[m] => WrittenBack(P, m)
          /\ tree'[P].child_Q[m] # tree[P].child_Q[m] =>
                 (WrittenBack(P, m) \/ InitialisedQ(P, m))]_vars

\* incorporate_results has set the child_Q of a node below the root to a
\* value other than 0 and written the node's N and Q back to the root
C17_Witness ==
    /\ call.op = "incorporate_results"
    /\ ~ call.raised
    /\ call.up_to = None
    /\ tree[call.self].parent = Root
    /\ \A m \in Moves : /\ tree[call.self].child_Q[m] = call.value
                         /\ tree[call.self].child_Q[m] # RInt(0)
                         /\ tree[call.self].child_N[m] = 0
    /\ tree[Root].child_N[tree[call.self].fmove] = tree[call.self].N
    /\ tree[Root].child_Q[tree[call.self].fmove] = tree[call.self].Q

----------------------------------------------------------------------------
(* C18 *)

\* C18: between two simulations every node has a child at an index exactly
\* when its child_N there is positive, so that wherever a node has children
\* the index of its greatest child_N is the index of a child, and
\* most_visited_path and mvp_gg look up no child that does not exist.
C18_VisitedIffChild ==
    pending = None =>
        \A P \in Nodes(tree) :
            /\ \A m \in Moves :
                   tree[P].children[m] # None <=> tree[P].child_N[m] > 0
            /\ (\E m \in Moves : tree[P].children[m] # None) =>
                   tree[P].children[next_kid(tree[P])] # None
            /\ ~ most_visited_path(tree, P).raised
            /\ ~ mvp_gg(tree, P).raised

\* after three simulations the most visited path leads from the root
\* through a child to a grandchild
C18_Witness ==
    /\ pending = None
    /\ Len(backed) = 3
    /\ Len(most_visited_path(tree, Root).output) = 2
    /\ Len(mvp_gg(tree, Root).output) = 1

----------------------------------------------------------------------------
(* C19 *)

\* the statistics and priors of a node
Statistics(node) ==
    <<node.N, node.Q, node.child_N, node.child_Q, node.original_prior,
      node.child_prior>>

\* C19: select_leaf changes the N, Q, child_N, child_Q, original_prior and
\* child_prior of no node and adds at most one node; a node it creates has
\* N = 0, Q = 0, vectors of zeros and no children, and is the node returned.
C19_SelectLeafOnlyAddsNode ==
    [][call'.op = "select_leaf" =>
          /\ Len(tree') \in {Len(tree), Len(tree) + 1}
          /\ \A n \in Nodes(tree) : Statistics(tree'[n]) = Statistics(tree[n])
          /\ Len(tree') = Len(tree) + 1 =>
                 LET new == tree'[Len(tree')] IN
                 /\ ret' = Len(tree')
                 /\ new.N = 0
                 /\ new.Q = RInt(0)
                 /\ \A m \in Moves : /\ new.child_N[m] = 0
                                      /\ new.child_Q[m] = RInt(0)
                                      /\ new.original_prior[m] = RInt(0)
                                      /\ new.child_prior[m] = RInt(0)
                                      /\ new.children[m] = None]_vars

\* select_leaf called on an evaluated node with an evaluated child has
\* created a node two levels below it
C19_Witness ==
    /\ call.op = "select_leaf"
    /\ ~ call.raised
    /\ ret = Len(tree)
    /\ tree[ret].N = 0
    /\ tree[ret].parent # None
    /\ tree[tree[ret].parent].N >= 1
    /\ tree[tree[ret].parent].parent = call.self
    /\ tree[call.self].N >= 1

----------------------------------------------------------------------------
(* C20 *)

\* the calls run step by step end in the trees and results of the calls
\* taken as a whole
StepsAgreeWithCalls ==
    /\ [][(frame.op = "select_leaf" /\ frame'.op = "idle") =>
             LET r == select_leaf(frame.before, Root) IN
             tree' = r.tree /\ ret' = r.ret /\ call'.raised = r.raised]_vars
    /\ [][(frame.op = "backup_value" /\ frame'.op = "idle") =>
             tree' = incorporate_results(frame.before, call.self,
                                         call.move_probabilities, call.value,
                                         None).tree]_vars

\* C20: every call of select_leaf and every call of backup_value that has
\* begun returns. An iteration of select_leaf that does not return moves to
\* an existing child of the current node; a call of backup_value adds 1 to
\* the N of its current node only and goes on at the parent, and when the
\* outermost call returns, the N of every node on the parent chain of the
\* start node is 1 more than when it began and no other N has changed.
C20_CallsReturn ==
    /\ (frame.op # "idle") ~> (frame.op = "idle")
    /\ [][(frame.op = "select_leaf" /\ frame'.op = "select_leaf") =>
             /\ frame'.current \in Nodes(tree)
             /\ tree[frame'.current].parent = frame.current
             /\ tree' = tree]_vars
    /\ [][frame.op = "backup_value" =>
             /\ \A n \in Nodes(tree) :
                    tree'[n].N = tree[n].N + (IF n = frame.current THEN 1 ELSE 0)
             /\ frame'.op = "backup_value" =>
                    frame'.current = tree[frame.current].parent
             /\ frame'.op = "idle" =>
                    \A n \in Nodes(tree) :
                        tree'[n].N = frame.before[n].N +
                            (IF n \in AncestorsOf(tree, call.self) THEN 1 ELSE 0)
          ]_vars

\* the backup from a grandchild of the root has returned, after a
\* select_leaf that went down two levels
C20_Witness ==
    /\ frame.op = "idle"
    /\ call.op = "incorporate_results"
    /\ ~ call.raised
    /\ pending = None
    /\ tree[call.self].parent # None
    /\ tree[tree[call.self].parent].parent = Root
    /\ tree[Root].N = frame.before[Root].N + 1
    /\ tree[Root].N = 3

====
